---- MODULE Spec2Model ----
(***************************************************************************)
(* FunctionFeaturizer (matminer/featurizers/function.py).                  *)
(*                                                                         *)
(* A featurizer is built from a list of expression strings in one          *)
(* variable x, a depth and a combining function.  Construction fills       *)
(* exp_dict, the table  depth n -> list of combined expressions in         *)
(* x0..x(n-1).  featurize and feature_labels walk that table with          *)
(* _exp_iter, substituting numbers or column names.                        *)
(*                                                                         *)
(* Symbolic expressions (sympy) are modelled by their automatically        *)
(* canonicalised form: an expression is a set of monomials (an Add), a     *)
(* monomial is a set of <<slot, atom, e2>> (a Mul of powers), where atom   *)
(* is an irreducible function of the slot's variable and e2 is twice the   *)
(* exponent.  Two expressions are == in sympy iff these forms are equal.   *)
(* Numbers are fixed-point complex values, re and im scaled by Scale.      *)
(***************************************************************************)
EXTENDS Integers, Sequences, FiniteSets, TLC

\* ------------------------------------------------------------- bounds
MaxDepth == 2
MaxSeed == 1
MaxTable == 12

\* ------------------------------------------------------ numeric layer
Scale == 10 * 10 * 10
PiFixed == (355 * Scale) \div 113

Abs(i) == IF i < 0 THEN 0 - i ELSE i

\* p*q/Scale without leaving 32 bits: q = Scale*(q \div Scale) + q % Scale
FixMul(p, q) == p * (q \div Scale) + (p * (q % Scale)) \div Scale

Complex(re, im) == [re |-> re, im |-> im]
FromNumber(v) == Complex(v * Scale, 0)
COne == FromNumber(1)

CMul(a, b) ==
    Complex(FixMul(a.re, b.re) - FixMul(a.im, b.im),
            FixMul(a.re, b.im) + FixMul(a.im, b.re))

CAdd(a, b) == Complex(a.re + b.re, a.im + b.im)

Recip(a) ==
    IF a.im = 0
    THEN Complex((Scale * Scale) \div a.re, 0)
    ELSE LET d == (a.re * a.re + a.im * a.im) \div Scale
         IN  Complex((a.re * Scale) \div d, (0 - a.im * Scale) \div d)

RECURSIVE SqrtIter(_, _)
SqrtIter(n, r) ==
    LET r2 == (r + n \div r) \div 2
    IN  IF r2 >= r THEN r ELSE SqrtIter(n, r2)

ISqrt(n) == IF n = 0 THEN 0 ELSE SqrtIter(n, n)

\* principal square root of a real value
Root(a) ==
    IF a.re >= 0 THEN Complex(ISqrt(a.re * Scale), 0)
                 ELSE Complex(0, ISqrt((0 - a.re) * Scale))

RECURSIVE NatPow(_, _)
NatPow(a, k) == IF k = 0 THEN COne ELSE CMul(a, NatPow(a, k - 1))

IntPow(a, k) == IF k >= 0 THEN NatPow(a, k) ELSE Recip(NatPow(a, 0 - k))

\* a ** (e2/2)
HalfPow(a, e2) ==
    IF e2 % 2 = 0 THEN IntPow(a, e2 \div 2) ELSE IntPow(Root(a), e2)

\* e**v for an integer v >= 0: sum of v^k/k!, term by term
RECURSIVE ExpSeries(_, _, _, _)
ExpSeries(v, k, term, acc) ==
    IF term = 0 THEN acc
    ELSE ExpSeries(v, k + 1, (term * v) \div (k + 1), acc + term)

ExpReal(v) ==
    IF v >= 0 THEN Complex(ExpSeries(v, 0, Scale, 0), 0)
    ELSE Recip(Complex(ExpSeries(0 - v, 0, Scale, 0), 0))

\* ln(a) for an integer a >= 1: 2*atanh((a-1)/(a+1)), term by term
RECURSIVE AtanhSeries(_, _, _, _)
AtanhSeries(z2, k, zpow, acc) ==
    IF zpow \div k = 0 THEN acc
    ELSE AtanhSeries(z2, k + 2, FixMul(zpow, z2), acc + zpow \div k)

LnPos(a) ==
    LET z  == ((a - 1) * Scale * 10) \div (a + 1)
        z2 == (z * z) \div (Scale * 10)
    IN  (2 * AtanhSeries(z2 \div 10, 1, z \div 10, 0))

\* log of a non-zero real: the principal branch, ln|v| + i*pi for v < 0
LogReal(v) ==
    IF v > 0 THEN Complex(LnPos(v), 0) ELSE Complex(LnPos(0 - v), PiFixed)

\* ---------------------------------------------------- symbolic layer
\* default_exps, function.py:27-28
default_exps ==
    << "x", "1/x", "sqrt(x)", "1/sqrt(x)", "x**2", "x**-2", "x**3",
       "x**-3", "log(x)", "1/log(x)", "exp(x)", "exp(-x)" >>

\* a monomial with the single factor atom(var) ** (e2/2)
Power(var, atom, e2) == {<<var, atom, e2>>}

\* the strings parse_expr accepts here
Parseable(s) ==
    s \in {"x", "1/x", "sqrt(x)", "1/sqrt(x)", "x**2", "x**-2", "x**3",
           "x**-3", "log(x)", "1/log(x)", "exp(x)", "exp(-x)",
           "x**-1", "x*x", "x*(x + 1)", "x**2 + x", "x0"}

\* parse_expr: the canonical form sympy builds while parsing.  Powers of
\* one base are collected (1/x is x**-1, x*x is x**2, 1/exp(x) is exp(-x));
\* a sum is not expanded or factored and stays an atom of its own.
parse_expr(s) ==
    CASE s = "x"         -> {Power("x", "x", 2)}
      [] s = "1/x"       -> {Power("x", "x", 0 - 2)}
      [] s = "x**-1"     -> {Power("x", "x", 0 - 2)}
      [] s = "sqrt(x)"   -> {Power("x", "x", 1)}
      [] s = "1/sqrt(x)" -> {Power("x", "x", 0 - 1)}
      [] s = "x**2"      -> {Power("x", "x", 4)}
      [] s = "x*x"       -> {Power("x", "x", 4)}
      [] s = "x**-2"     -> {Power("x", "x", 0 - 4)}
      [] s = "x**3"      -> {Power("x", "x", 6)}
      [] s = "x**-3"     -> {Power("x", "x", 0 - 6)}
      [] s = "log(x)"    -> {Power("x", "log", 2)}
      [] s = "1/log(x)"  -> {Power("x", "log", 0 - 2)}
      [] s = "exp(x)"    -> {Power("x", "exp", 2)}
      [] s = "exp(-x)"   -> {Power("x", "exp", 0 - 2)}
      [] s = "x*(x + 1)" -> {Power("x", "x", 2) \cup Power("x", "x + 1", 2)}
      [] s = "x**2 + x"  -> {Power("x", "x**2 + x", 2)}
      [] s = "x0"        -> {Power("x0", "x", 2)}

\* "x{}".format(m)
SlotName(m) == "x" \o ToString(m)

\* exponent (doubled) of atom(var) in monomial m
ExponentIn(m, var, atom) ==
    IF \E t \in m : t[1] = var /\ t[2] = atom
    THEN (CHOOSE t \in m : t[1] = var /\ t[2] = atom)[3]
    ELSE 0

\* Mul of two monomials: exponents of equal bases add, base**0 vanishes
MulMono(m1, m2) ==
    LET keys == {<<t[1], t[2]>> : t \in m1 \cup m2}
        e(k) == ExponentIn(m1, k[1], k[2]) + ExponentIn(m2, k[1], k[2])
    IN  {<<k[1], k[2], e(k)>> : k \in {kk \in keys : e(kk) # 0}}

\* Expr.subs with symbols as the new values: rename, then re-canonicalise
RECURSIVE RenameMono(_, _)
RenameMono(m, ren) ==
    IF m = {} THEN {}
    ELSE LET t == CHOOSE tt \in m : TRUE
         IN  MulMono(Power(IF t[1] \in DOMAIN ren THEN ren[t[1]] ELSE t[1],
                           t[2], t[3]),
                     RenameMono(m \ {t}, ren))

SubsSymbols(e, ren) == {RenameMono(m, ren) : m \in e}

\* value of atom at the real number v; exp(c*x) is evaluated as a whole
AtomValue(atom, v) ==
    CASE atom = "x"        -> FromNumber(v)
      [] atom = "log"      -> LogReal(v)
      [] atom = "x + 1"    -> FromNumber(v + 1)
      [] atom = "x**2 + x" -> FromNumber(v * v + v)

RECURSIVE EvalMono(_, _)
EvalMono(m, env) ==
    IF m = {} THEN COne
    ELSE LET t == CHOOSE tt \in m : TRUE
             f == IF t[2] = "exp"
                  THEN ExpReal((t[3] \div 2) * env[t[1]])
                  ELSE HalfPow(AtomValue(t[2], env[t[1]]), t[3])
         IN  CMul(f, EvalMono(m \ {t}, env))

RECURSIVE EvalExpr(_, _)
EvalExpr(e, env) ==
    IF e = {} THEN Complex(0, 0)
    ELSE LET m == CHOOSE mm \in e : TRUE
         IN  CAdd(EvalMono(m, env), EvalExpr(e \ {m}, env))

\* Expr.subs with numbers as the new values: the expression evaluates
SubsNumbers(e, env) == EvalExpr(e, env)

\* ------------------------------------------------ itertools, np.prod
RECURSIVE Flatten(_)
Flatten(ss) == IF ss = <<>> THEN <<>> ELSE Head(ss) \o Flatten(Tail(ss))

Remove(s, i) == [j \in 1..(Len(s) - 1) |-> IF j < i THEN s[j] ELSE s[j + 1]]

\* itertools.product(*arrays): the last array varies fastest
RECURSIVE product(_)
product(arrays) ==
    IF arrays = <<>> THEN << <<>> >>
    ELSE LET rest == product(Tail(arrays))
             first == Head(arrays)
         IN  Flatten([i \in 1..Len(first) |->
                 [j \in 1..Len(rest) |-> <<first[i]>> \o rest[j]]])

\* itertools.permutations(s): by position, in lexicographic order
RECURSIVE permutations(_)
permutations(s) ==
    IF s = <<>> THEN << <<>> >>
    ELSE Flatten([i \in 1..Len(s) |->
             LET rest == permutations(Remove(s, i))
             IN  [j \in 1..Len(rest) |-> <<s[i]>> \o rest[j]]])

\* itertools.combinations_with_replacement in place of combinations
RECURSIVE ReplacementFrom(_, _, _)
ReplacementFrom(lo, k, n) ==
    IF n = 0 THEN << <<>> >>
    ELSE Flatten([d \in 1..(IF k >= lo THEN k - lo + 1 ELSE 0) |->
             LET i == lo + d - 1
                 rest == ReplacementFrom(i, k, n - 1)
             IN  [j \in 1..Len(rest) |-> <<i>> \o rest[j]]])

combinations_with_replacement(k, n) == ReplacementFrom(1, k, n)

\* itertools.combinations(range(lo, k+1), n): increasing positions,
\* in lexicographic order
RECURSIVE CombinationsFrom(_, _, _)
CombinationsFrom(lo, k, n) ==
    IF n = 0 THEN << <<>> >>
    ELSE Flatten([d \in 1..(IF k >= lo THEN k - lo + 1 ELSE 0) |->
             LET i == lo + d - 1
                 rest == CombinationsFrom(i + 1, k, n - 1)
             IN  [j \in 1..Len(rest) |-> <<i>> \o rest[j]]])

combinations(k, n) == CombinationsFrom(1, k, n)

\* np.prod over a tuple of expressions: their Mul
RECURSIVE np_prod(_)
np_prod(exps) ==
    IF exps = <<>> THEN {{}}
    ELSE {MulMono(a, b) : a \in Head(exps), b \in np_prod(Tail(exps))}

\* sum over a tuple of expressions: their Add
RECURSIVE py_sum(_)
py_sum(exps) ==
    IF exps = <<>> THEN {} ELSE Head(exps) \cup py_sum(Tail(exps))

\* calling a combo function
Apply(combo_function, exps) ==
    IF combo_function = "sum" THEN py_sum(exps) ELSE np_prod(exps)

\* the elements of s at the positions in keep, in order
PickPositions(s, keep) ==
    [k \in 1..Cardinality(keep) |->
        s[CHOOSE i \in keep : Cardinality({j \in keep : j <= i}) = k]]

\* first occurrences of the elements of s, in order
Dedup(s) ==
    PickPositions(s, {i \in 1..Len(s) : \A j \in 1..(i - 1) : s[j] # s[i]})

Reverse(s) == [i \in 1..Len(s) |-> s[Len(s) + 1 - i]]
Rotate(s, r) ==
    [i \in 1..Len(s) |-> s[((i - 1 + r) % Len(s)) + 1]]

\* list(...) of the combinations without the set: duplicates stay
ListKeepsDuplicates(s, seed) ==
    IF s = <<>> THEN s
    ELSE IF seed % 2 = 0 THEN Rotate(s, seed) ELSE Reverse(Rotate(s, seed))

\* list(set(...)): the elements, each once, in the order the hashes of this
\* process put them; seed stands for the process's hash seed
ListOfSet(s, seed) ==
    LET u == Dedup(s)
    IN  IF u = <<>> THEN u
        ELSE IF seed % 2 = 0 THEN Rotate(u, seed) ELSE Reverse(Rotate(u, seed))

\* s without the elements equal to e
Without(s, e) == PickPositions(s, {i \in 1..Len(s) : s[i] # e})

\* the generator without the removal of the identity x0
GenerateKeepsIdentity(exprs, combo_depth, combo, seed) ==
    LET exp_array == [i \in 1..Len(exprs) |-> parse_expr(exprs[i])]
        all_arrays ==
            [n \in 1..combo_depth |->
                [i \in 1..Len(exp_array) |->
                    SubsSymbols(exp_array[i], [v \in {"x"} |-> SlotName(n - 1)])]]
        exp_sets == product(all_arrays)
        combo_exps ==
            Flatten([s \in 1..Len(exp_sets) |->
                LET perms == permutations(exp_sets[s])
                IN  [p \in 1..Len(perms) |-> Apply(combo, perms[p])]])
    IN  ListOfSet(combo_exps, seed)

\* ------------------------------------------------------ the generator
\* generate_expressions_combinations, function.py:177-214.  Line 213 of the
\* file reads "set([parse_expr('x0')]t ))"; the stray t is read as a typing
\* slip and the line as set(combo_exps) - set([parse_expr('x0')]).
generate_expressions_combinations(exprs, combo_depth, combo, seed) ==
    LET exp_array == [i \in 1..Len(exprs) |-> parse_expr(exprs[i])]
        all_arrays ==
            [n \in 1..combo_depth |->
                [i \in 1..Len(exp_array) |->
                    SubsSymbols(exp_array[i], [v \in {"x"} |-> SlotName(n - 1)])]]
        exp_sets == product(all_arrays)
        combo_exps ==
            Flatten([s \in 1..Len(exp_sets) |->
                LET perms == permutations(exp_sets[s])
                IN  [p \in 1..Len(perms) |-> Apply(combo, perms[p])]])
    IN  ListOfSet(Without(combo_exps, parse_expr("x0")), seed)

\* the table __init__ builds, function.py:63-65: one list per depth
\* 1..multi_feature_depth.  The call passes expressions and n only, so the
\* generator runs with its default combiner np.prod whatever combo_function is.
BuildExpDict(exprs, depth, combo, seed) ==
    [n \in 1..depth |->
        generate_expressions_combinations(exprs, n, "np.prod", seed)]

\* ------------------------------------------------------- the iterator
None == [kind |-> "None", re |-> 0, im |-> 0, expr |-> {}]
Number(kind, z) == [kind |-> kind, re |-> z.re, im |-> z.im, expr |-> {}]
Text(kind, e) == [kind |-> kind, re |-> 0, im |-> 0, expr |-> e]

NumericPost == {"float", "complex", "identity"}
TextPost == {"str", "sp.latex"}

\* subs_dict with the selected arguments bound in reverse
SubsDictReversed(args, combo) ==
    [v \in {SlotName(m - 1) : m \in 1..Len(combo)} |->
        args[combo[Len(combo) + 1 -
                   (CHOOSE m \in 1..Len(combo) : SlotName(m - 1) = v)]]]

\* subs_dict, function.py:148-149: slot m gets the m-th selected argument
SubsDict(args, combo) ==
    [v \in {SlotName(m - 1) : m \in 1..Len(combo)} |->
        args[combo[CHOOSE m \in 1..Len(combo) : SlotName(m - 1) = v]]]

\* float that only rejects purely imaginary values
FloatRaisesIfPureImaginary(z) == z.re = 0 /\ z.im # 0

\* float(z) raises TypeError for a value with an imaginary part
FloatRaises(z) == z.im # 0

\* one pass of the try statement, function.py:154-157
Yield(postprocess, exp, subs_dict) ==
    IF postprocess \in NumericPost
    THEN LET z == SubsNumbers(exp, subs_dict)
         IN  CASE postprocess = "float" ->
                     IF FloatRaises(z) THEN None ELSE Number("float", z)
               [] postprocess = "complex" -> Number("complex", z)
               [] OTHER -> Number("sympy", z)
    ELSE Text(postprocess, SubsSymbols(exp, subs_dict))

\* s up to and including its first None item
UpToFirstNone(s) ==
    IF \E i \in 1..Len(s) : s[i].val = None
    THEN SubSeq(s, 1, CHOOSE i \in 1..Len(s) :
                        /\ s[i].val = None
                        /\ \A q \in 1..(i - 1) : s[q].val # None)
    ELSE s

\* _exp_iter with the try statement around the loop over exp_dict[n]: the
\* first failure ends the loop for that arg_combo
ExpIterTryAroundLoop(table, depth, args, postprocess) ==
    Flatten([n \in 1..depth |->
        LET combos == combinations(Len(args), n)
            post == IF postprocess = "None" THEN "identity" ELSE postprocess
        IN  Flatten([c \in 1..Len(combos) |->
                UpToFirstNone(
                [j \in 1..Len(table[n]) |->
                    [val |-> Yield(post, table[n][j],
                                   SubsDict(args, combos[c])),
                     n |-> n, combo |-> combos[c], j |-> j]])])])

\* s without its None items
DropNone(s) == PickPositions(s, {i \in 1..Len(s) : s[i].val # None})

\* _exp_iter with an except clause that yields nothing
ExpIterSkipsFailures(table, depth, args, postprocess) ==
    Flatten([n \in 1..depth |->
        LET combos == combinations(Len(args), n)
            post == IF postprocess = "None" THEN "identity" ELSE postprocess
        IN  Flatten([c \in 1..Len(combos) |->
                DropNone(
                [j \in 1..Len(table[n]) |->
                    [val |-> Yield(post, table[n][j],
                                   SubsDict(args, combos[c])),
                     n |-> n, combo |-> combos[c], j |-> j]])])])

\* _exp_iter, function.py:129-157, as the list of what it yields; each item
\* carries the loop position (n, arg_combo, index in exp_dict[n]) it came from
ExpIter(table, depth, args, postprocess) ==
    Flatten([n \in 1..depth |->
        LET combos == combinations(Len(args), n)
            post == IF postprocess = "None" THEN "identity" ELSE postprocess
        IN  Flatten([c \in 1..Len(combos) |->
                [j \in 1..Len(table[n]) |->
                    [val |-> Yield(post, table[n][j],
                                   SubsDict(args, combos[c])),
                     n |-> n, combo |-> combos[c], j |-> j]]])])

\* ------------------------------------------------------------ inputs
RECURSIVE IntPower(_, _)
IntPower(b, k) == IF k <= 0 THEN 1 ELSE b * IntPower(b, k - 1)

\* the expressions argument; <<>> stands for None (and for an empty list)
ExpressionChoices ==
    { <<>>,
      <<"x", "1/x">>,
      <<"x", "1/x", "x**-1">>,
      <<"x*(x + 1)", "x**2 + x">>,
      <<"sqrt(x)", "log(x)">>,
      <<"x", "1/(">> }

DepthChoices == (0 - 1)..MaxDepth
ComboChoices == {"None", "np.prod", "sum"}
SeedChoices == 0..MaxSeed

NumberArgs ==
    { <<>>, <<2>>, <<0 - 4>>, <<2, 0 - 4>>, <<0 - 4, 0 - 4>>, <<2, 3, 0 - 4>> }
ColumnArgs ==
    { <<>>, <<"a">>, <<"a", "b">>, <<"a", "a">>, <<"a", "b", "c">> }
PostprocessChoices == {"float", "complex", "None"}

\* the calls of the two-call specification
PairNumberArgs == { <<>>, <<0 - 4>>, <<2, 0 - 4>>, <<2, 3, 0 - 4>> }
PairColumnArgs == { <<>>, <<"a">>, <<"a", "b">>, <<"a", "b", "c">> }

\* ------------------------------------------------------- state machine
VARIABLES
    pc,                   \* "new", "ready" (constructed), "raised"
    expressions,          \* self.expressions
    multi_feature_depth,  \* self.multi_feature_depth
    combo_function,       \* self.combo_function
    exp_dict,             \* self.exp_dict
    last,                 \* the latest call and what it returned
    saved                 \* an earlier call and what it returned

vars == <<pc, expressions, multi_feature_depth, combo_function, exp_dict,
          last, saved>>

NoCall ==
    [method |-> "none", args |-> <<>>, postprocess |-> "none",
     out |-> <<>>, trace |-> <<>>]

Init ==
    /\ pc = "new"
    /\ expressions = <<>>
    /\ multi_feature_depth = 0
    /\ combo_function = "None"
    /\ exp_dict = <<>>
    /\ last = NoCall
    /\ saved = NoCall

\* expressions or default_exps, function.py:58
OrDefault(exprs) == IF exprs = <<>> THEN default_exps ELSE exprs

\* does building the table raise?  parse_expr runs only inside the generator
Raises(exprs, depth) ==
    depth >= 1 /\ \E i \in 1..Len(OrDefault(exprs)) : ~Parseable(OrDefault(exprs)[i])

\* FunctionFeaturizer.__init__, function.py:42-65
Construct(exprs, depth, combo, seed) ==
    /\ pc = "new"
    /\ IntPower(Len(OrDefault(exprs)), depth) <= MaxTable
    /\ ~Raises(exprs, depth)
    /\ pc' = "ready"
    /\ expressions' = OrDefault(exprs)
    /\ multi_feature_depth' = depth
    /\ combo_function' = (IF combo = "None" THEN "np.prod" ELSE combo)
    /\ exp_dict' = BuildExpDict(OrDefault(exprs), depth,
                                IF combo = "None" THEN "np.prod" ELSE combo,
                                seed)
    /\ UNCHANGED <<last, saved>>

\* __init__ when parse_expr raises: the exception leaves no featurizer
ConstructRaises(exprs, depth) ==
    /\ pc = "new"
    /\ Raises(exprs, depth)
    /\ pc' = "raised"
    /\ UNCHANGED <<expressions, multi_feature_depth, combo_function,
                   exp_dict, last, saved>>

Call(method, args, postprocess) ==
    LET items == ExpIter(exp_dict, multi_feature_depth, args, postprocess)
    IN  [method |-> method, args |-> args, postprocess |-> postprocess,
         out |-> [i \in 1..Len(items) |-> items[i].val],
         trace |-> [i \in 1..Len(items) |->
                       [n |-> items[i].n, combo |-> items[i].combo,
                        j |-> items[i].j]]]

\* the positions of exp_dict[n] that no None of call c came from
Survivors(c, n) ==
    LET failed == {c.trace[i].j : i \in {q \in 1..Len(c.out) :
                        c.out[q] = None /\ c.trace[q].n = n}}
    IN  PickPositions(exp_dict[n], (1..Len(exp_dict[n])) \ failed)

\* featurize that deletes from the table the expressions that failed
FeaturizeDropsFailed(args, postprocess, remember) ==
    /\ pc = "ready"
    /\ last' = Call("featurize", args, postprocess)
    /\ saved' = IF remember THEN last ELSE saved
    /\ exp_dict' = [n \in 1..multi_feature_depth |-> Survivors(last', n)]
    /\ UNCHANGED <<pc, expressions, multi_feature_depth, combo_function>>

\* featurize, function.py:93-109.  remember: whether the observer keeps the
\* previous call in saved.
Featurize(args, postprocess, remember) ==
    /\ pc = "ready"
    /\ last' = Call("featurize", args, postprocess)
    /\ saved' = IF remember THEN last ELSE saved
    /\ UNCHANGED <<pc, expressions, multi_feature_depth, combo_function,
                   exp_dict>>

\* feature_labels, function.py:112-126
FeatureLabels(col_id, latexify_labels, remember) ==
    /\ pc = "ready"
    /\ last' = Call("feature_labels", col_id,
                    IF latexify_labels THEN "sp.latex" ELSE "str")
    /\ saved' = IF remember THEN last ELSE saved
    /\ UNCHANGED <<pc, expressions, multi_feature_depth, combo_function,
                   exp_dict>>

Build ==
    \/ \E exprs \in ExpressionChoices, depth \in DepthChoices,
          combo \in ComboChoices, seed \in SeedChoices :
            Construct(exprs, depth, combo, seed)
    \/ \E exprs \in ExpressionChoices, depth \in DepthChoices :
            ConstructRaises(exprs, depth)

\* one featurizer, any sequence of calls, the latest one observed
Next ==
    \/ Build
    \/ \E args \in NumberArgs, postprocess \in PostprocessChoices :
            Featurize(args, postprocess, FALSE)
    \/ \E col_id \in ColumnArgs, latexify_labels \in BOOLEAN :
            FeatureLabels(col_id, latexify_labels, FALSE)

Spec == Init /\ [][Next]_vars

\* one featurizer, any sequence of calls, the latest one and an earlier one
\* observed
PairNext ==
    \/ Build
    \/ \E args \in PairNumberArgs, remember \in BOOLEAN :
            Featurize(args, "float", remember)
    \/ \E col_id \in PairColumnArgs, remember \in BOOLEAN :
            FeatureLabels(col_id, FALSE, remember)

PairSpec == Init /\ [][PairNext]_vars

\* ------------------------------------------------- vocabulary of claims
Called(c) == c.method # "none"
Ready == pc = "ready"

RECURSIVE Factorial(_)
Factorial(n) == IF n <= 1 THEN 1 ELSE n * Factorial(n - 1)

\* C(k, n), 0 when n > k
Binomial(k, n) ==
    IF n > k THEN 0
    ELSE Factorial(k) \div (Factorial(n) * Factorial(k - n))

RECURSIVE SumTo(_, _)
SumTo(f, n) == IF n <= 0 THEN 0 ELSE f[n] + SumTo(f, n - 1)

\* sum over n in 1..multi_feature_depth of C(k, n) * |table[n]|
ExpectedLength(k) ==
    SumTo([n \in 1..multi_feature_depth |->
              Binomial(k, n) * Len(exp_dict[n])],
          multi_feature_depth)

\* n-element selections of positions 1..k, increasing, no repetition
IsSelection(c, k, n) ==
    /\ Len(c) = n
    /\ \A m \in 1..n : c[m] \in 1..k
    /\ \A m \in 1..(n - 1) : c[m] < c[m + 1]

Selections(k, n) ==
    {c \in [1..n -> 1..k] : \A m \in 1..(n - 1) : c[m] < c[m + 1]}

\* c before d in lexicographic order (equal lengths)
LexLess(c, d) ==
    \E m \in 1..Len(c) :
        /\ c[m] < d[m]
        /\ \A q \in 1..(m - 1) : c[q] = d[q]

\* loop position t comes strictly before loop position u
Before(t, u) ==
    \/ t.n < u.n
    \/ t.n = u.n /\ LexLess(t.combo, u.combo)
    \/ t.n = u.n /\ t.combo = u.combo /\ t.j < u.j

\* slot x(m-1) bound to the m-th selected argument
Binding(args, c) ==
    [v \in {SlotName(m - 1) : m \in 1..Len(c)} |->
        LET m == CHOOSE q \in 1..Len(c) : SlotName(q - 1) = v
        IN  args[c[m]]]

\* what the call c yields at loop position t, by the code's try statement
Produced(c, t) ==
    Yield(IF c.postprocess = "None" THEN "identity" ELSE c.postprocess,
          exp_dict[t.n][t.j], Binding(c.args, t.combo))

IsNone(v) == v.kind = "None"
HasNone(c) == \E i \in 1..Len(c.out) : IsNone(c.out[i])

\* ---------------------------------------------------------------- C1
\* C1: a featurize call and a feature_labels call on the same featurizer
\* with the same number of arguments return lists of the same length, and
\* position i of both comes from the same (depth, argument positions,
\* table expression), also when some values are None.
C1_SameShape ==
    (Ready /\ Called(saved) /\ Called(last)
        /\ saved.method # last.method
        /\ Len(saved.args) = Len(last.args))
    => /\ Len(saved.out) = Len(last.out)
       /\ Len(saved.out) = Len(saved.trace)
       /\ Len(last.out) = Len(last.trace)
       /\ \A i \in 1..Len(last.out) :
            /\ saved.trace[i] = last.trace[i]
            /\ saved.out[i] = Produced(saved, last.trace[i])
            /\ last.out[i] = Produced(last, saved.trace[i])

C1_Witness ==
    /\ Ready
    /\ saved.method = "feature_labels"
    /\ last.method = "featurize"
    /\ Len(saved.args) = 2
    /\ Len(last.args) = 2
    /\ multi_feature_depth = 2
    /\ HasNone(last)
    /\ \E i \in 1..Len(last.out) : ~IsNone(last.out[i])

\* ---------------------------------------------------------------- C2
\* C2: in featurize with postprocess float, a position holds None exactly
\* when float raises for the expression substituted at that position, every
\* other position holds the float of its own substituted expression, and
\* the length is the full length.
C2_LocalRecovery ==
    (Ready /\ last.method = "featurize" /\ last.postprocess = "float")
    => /\ Len(last.out) = ExpectedLength(Len(last.args))
       /\ \A i \in 1..Len(last.out) :
            LET t == last.trace[i]
                z == SubsNumbers(exp_dict[t.n][t.j],
                                 Binding(last.args, t.combo))
            IN  last.out[i] =
                    IF FloatRaises(z) THEN None ELSE Number("float", z)

C2_Witness ==
    /\ Ready
    /\ last.method = "featurize"
    /\ last.postprocess = "float"
    /\ \E i \in 1..(Len(last.out) - 1) :
            IsNone(last.out[i]) /\ ~IsNone(last.out[i + 1])

\* ---------------------------------------------------------------- C3
\* C3: the output of featurize and of feature_labels for k arguments has
\* length sum over n in 1..multi_feature_depth of C(k, n) * |table[n]|.
C3_Length ==
    (Ready /\ Called(last))
    => Len(last.out) = ExpectedLength(Len(last.args))

C3_Witness ==
    /\ Ready
    /\ Called(last)
    /\ multi_feature_depth = 2
    /\ Len(last.args) = 1
    /\ Len(exp_dict[2]) > 0
    /\ Len(last.out) = Len(exp_dict[1])
    /\ Len(last.out) > 0

\* ---------------------------------------------------------------- C4
\* C4: every expression of the table, at every depth, is the configured
\* combining function applied to one renamed base expression per slot.
C4_ConfiguredCombiner ==
    Ready =>
        \A n \in 1..multi_feature_depth :
            \A j \in 1..Len(exp_dict[n]) :
                \E f \in [1..n -> 1..Len(expressions)] :
                    exp_dict[n][j] =
                        Apply(combo_function,
                              [m \in 1..n |->
                                  SubsSymbols(parse_expr(expressions[f[m]]),
                                      [v \in {"x"} |-> SlotName(m - 1)])])

\* ---------------------------------------------------------------- C5
\* C5: no featurizer with multi_feature_depth < 1 is ever produced.
C5_DepthRejected == Ready => multi_feature_depth >= 1

\* ---------------------------------------------------------------- C6
Tolerance == Scale \div 100
Near(v, target) == v.kind = "float" /\ Abs(v.re - target) <= Tolerance

\* base expression s as a depth-1 table entry
Slot0(s) == SubsSymbols(parse_expr(s), [v \in {"x"} |-> "x0"])

DefaultCall(args) ==
    /\ Ready
    /\ expressions = default_exps
    /\ multi_feature_depth = 1
    /\ last.method = "featurize"
    /\ last.postprocess = "float"
    /\ last.args = args

\* some position comes from base expression s and holds about target
Holds(s, target) ==
    \E i \in 1..Len(last.out) :
        exp_dict[1][i] = Slot0(s) /\ Near(last.out[i], target)

\* C6 as stated: default expressions, depth 1: featurize(2.0) has an output
\* for the identity x (2.0) and for 1/x (0.5), sqrt(x) and x**2 (4.0).
C6_IncludesIdentity ==
    DefaultCall(<<2>>)
    => /\ Holds("x", 2 * Scale)
       /\ Holds("1/x", Scale \div 2)
       /\ Holds("sqrt(x)", ISqrt(2 * Scale * Scale))
       /\ Holds("x**2", 4 * Scale)

\* C6 amended: featurize(2.0) has one output per default expression other
\* than the identity x: 0.5 for 1/x, sqrt(2) for sqrt(x), 4.0 for x**2, and
\* no output for x itself (no position holds 2.0).
C6_DefaultOutputs ==
    DefaultCall(<<2>>)
    => /\ Len(last.out) = Len(default_exps) - 1
       /\ Holds("1/x", Scale \div 2)
       /\ Holds("sqrt(x)", ISqrt(2 * Scale * Scale))
       /\ Holds("x**2", 4 * Scale)
       /\ \A i \in 1..Len(last.out) :
            /\ exp_dict[1][i] # Slot0("x")
            /\ ~Near(last.out[i], 2 * Scale)

C6_Witness == DefaultCall(<<2>>) /\ Len(last.out) > 0

\* ---------------------------------------------------------------- C7
\* C7 as stated: default expressions, depth 1, float: featurize(-4.0) holds
\* None at the position of sqrt(x) and a float at every other position.
C7_OnlySqrtMissing ==
    DefaultCall(<<0 - 4>>)
    => \A i \in 1..Len(last.out) :
          IF exp_dict[1][i] = Slot0("sqrt(x)")
          THEN IsNone(last.out[i])
          ELSE last.out[i].kind = "float"

ComplexAtNegative ==
    {Slot0("sqrt(x)"), Slot0("1/sqrt(x)"), Slot0("log(x)"), Slot0("1/log(x)")}

\* C7 amended: featurize(-4.0) holds None at the positions of sqrt(x),
\* 1/sqrt(x), log(x) and 1/log(x), whose values at -4.0 are complex, and a
\* float at each of the seven other positions.
C7_ComplexMissing ==
    DefaultCall(<<0 - 4>>)
    => /\ Len(last.out) = Len(default_exps) - 1
       /\ \A i \in 1..Len(last.out) :
            IF exp_dict[1][i] \in ComplexAtNegative
            THEN IsNone(last.out[i])
            ELSE last.out[i].kind = "float"
       /\ \A e \in ComplexAtNegative :
            \E i \in 1..Len(last.out) : exp_dict[1][i] = e

C7_Witness == DefaultCall(<<0 - 4>>) /\ HasNone(last)

\* ---------------------------------------------------------------- C8
\* C8: the output lists one item per (depth n, selection of n argument
\* positions, expression of table[n]); n ascends, then the selections in
\* lexicographic order of increasing positions, then table order; slot
\* x(m-1) is bound to the m-th selected argument.
C8_Order ==
    (Ready /\ Called(last))
    => LET k == Len(last.args) IN
       /\ Len(last.out) = Len(last.trace)
       /\ \A i \in 1..Len(last.trace) :
            LET t == last.trace[i] IN
            /\ t.n \in 1..multi_feature_depth
            /\ IsSelection(t.combo, k, t.n)
            /\ t.j \in 1..Len(exp_dict[t.n])
            /\ last.out[i] = Produced(last, t)
       /\ \A i \in 1..(Len(last.trace) - 1) :
            Before(last.trace[i], last.trace[i + 1])
       /\ Len(last.trace) =
            Cardinality(UNION {{<<n, c, j>> : c \in Selections(k, n),
                                              j \in 1..Len(exp_dict[n])} :
                               n \in 1..multi_feature_depth})

C8_Witness ==
    /\ Ready
    /\ last.method = "featurize"
    /\ multi_feature_depth = 2
    /\ Len(last.args) = 3
    /\ Len(exp_dict[2]) > 1
    /\ Len(last.out) = 3 * Len(exp_dict[1]) + 3 * Len(exp_dict[2])

\* ---------------------------------------------------------------- C9
X0 == parse_expr("x0")

\* the products of one base expression per slot x0..x(n-1)
Products(n) ==
    {np_prod([m \in 1..n |->
                 SubsSymbols(parse_expr(expressions[f[m]]),
                             [v \in {"x"} |-> SlotName(m - 1)])]) :
        f \in [1..n -> 1..Len(expressions)]}

SamplePoints == {2, 3}

\* equal values at every sample point of x0..x(n-1)
Equivalent(e1, e2, n) ==
    \A env \in [{SlotName(m - 1) : m \in 1..n} -> SamplePoints] :
        SubsNumbers(e1, env) = SubsNumbers(e2, env)

FourProducts ==
    { {Power("x0", "x", 2) \cup Power("x1", "x", 2)},
      {Power("x0", "x", 2) \cup Power("x1", "x", 0 - 2)},
      {Power("x0", "x", 0 - 2) \cup Power("x1", "x", 2)},
      {Power("x0", "x", 0 - 2) \cup Power("x1", "x", 0 - 2)} }

Example9 ==
    (expressions = <<"x", "1/x">> /\ multi_feature_depth >= 2)
    => /\ Len(exp_dict[2]) = 4
       /\ {exp_dict[2][i] : i \in 1..4} = FourProducts

SameCall(c, d) ==
    /\ Called(c)
    /\ c.method = d.method
    /\ c.postprocess = d.postprocess
    /\ c.args = d.args

\* C10: no call changes the table or the depth, and a call returns what an
\* earlier call with the same arguments returned, whatever came between.
C10_Immutable ==
    [][/\ Ready => /\ exp_dict' = exp_dict
                   /\ multi_feature_depth' = multi_feature_depth
                   /\ expressions' = expressions
       /\ SameCall(saved', last') => saved'.out = last'.out]_vars

C10_Witness ==
    /\ Ready
    /\ SameCall(saved, last)
    /\ last.method = "featurize"
    /\ Len(last.args) >= 1
    /\ HasNone(last)

====
